---- MODULE Spec2Model ----
(***************************************************************************)
(* Workflow executor of services/business_logic_processor.py               *)
(* (BusinessLogicProcessor): the workflow task table, the approval store,  *)
(* the workflow history and one execute_workflow call in flight.           *)
(*                                                                         *)
(* execute_workflow is split at its loop: StartWorkflow is the prologue    *)
(* (task lookup, the early return, the sort), ExecuteTask is one iteration *)
(* of the for loop including the call of _execute_workflow_task and the    *)
(* handler it dispatches to, FinishWorkflow is the epilogue (overall       *)
(* status, history append, return).                                        *)
(***************************************************************************)
EXTENDS Integers, Sequences, FiniteSets, TLC

\* --------------------------------------------------------------- bounds
\* number of execute_workflow calls explored
MaxCalls == 2
\* number of handler exceptions the environment raises in total
MaxFaults == 1
\* number of tasks of the additional (caller-supplied) workflow
MaxCustomTasks == 2
\* number of evaluate_business_rule calls explored
MaxEvals == 2
\* number of inventory items a batch evaluation runs over
MaxItems == 2
\* number of callers that evaluate rules at the same time
MaxThreads == 2
\* number of notification messages created
MaxMessages == 2
\* the last instant of the notification system's clock
MaxClock == 1

\* ------------------------------------------------- enums of the source
\* WorkflowStatus values
PENDING == "pending"
IN_PROGRESS == "in_progress"
COMPLETED == "completed"
FAILED == "failed"
CANCELLED == "cancelled"
ON_HOLD == "on_hold"

WorkflowStatus == {PENDING, IN_PROGRESS, COMPLETED, FAILED, CANCELLED, ON_HOLD}

\* Priority values
Priority == {"critical", "high", "medium", "low"}

\* task types with a branch of their own in _execute_workflow_task
CompletingTypes == {"validation", "data_entry", "scheduling", "monitoring", "documentation"}

HoldingTypes == {"approval", "procurement"}

KnownTaskTypes == CompletingTypes \cup HoldingTypes

\* ------------------------------------------------------ the task table
\* f"{workflow_id}_{n:03d}"
TaskId(wf, n) == <<wf, n>>

\* a WorkflowTask as the _create_*_workflow methods construct it
WorkflowTask(wf, n, type, prio, deps) ==
    [task_id |-> TaskId(wf, n), workflow_id |-> wf, task_type |-> type,
     status |-> PENDING, priority |-> prio,
     dependencies |-> {TaskId(wf, d) : d \in deps}]

EquipmentCheckoutWorkflow ==
    LET wf == "WF_EQUIPMENT_CHECKOUT" IN
    << WorkflowTask(wf, 1, "validation", "high", {}),
       WorkflowTask(wf, 2, "validation", "high", {1}),
       WorkflowTask(wf, 3, "approval", "medium", {2}),
       WorkflowTask(wf, 4, "data_entry", "high", {3}),
       WorkflowTask(wf, 5, "scheduling", "low", {4}) >>

InventoryReorderWorkflow ==
    LET wf == "WF_INVENTORY_REORDER" IN
    << WorkflowTask(wf, 1, "monitoring", "medium", {}),
       WorkflowTask(wf, 2, "documentation", "high", {1}),
       WorkflowTask(wf, 3, "approval", "high", {2}),
       WorkflowTask(wf, 4, "procurement", "medium", {3}),
       WorkflowTask(wf, 5, "data_entry", "high", {4}) >>

ComplianceRemediationWorkflow ==
    LET wf == "WF_COMPLIANCE_REMEDIATION" IN
    << WorkflowTask(wf, 1, "analysis", "high", {}),
       WorkflowTask(wf, 2, "planning", "high", {1}),
       WorkflowTask(wf, 3, "execution", "critical", {2}),
       WorkflowTask(wf, 4, "verification", "high", {3}),
       WorkflowTask(wf, 5, "documentation", "medium", {4}) >>

\* the table after __init__ : insertion order of the dict self.workflow_tasks
InitializeWorkflows ==
    EquipmentCheckoutWorkflow \o InventoryReorderWorkflow \o ComplianceRemediationWorkflow

\* ------------------------------------------------------------- inputs
CustomWorkflowId == "WF_CUSTOM"

\* workflow ids execute_workflow is called with; WF_UNKNOWN never has tasks
WorkflowIds ==
    {"WF_EQUIPMENT_CHECKOUT", "WF_INVENTORY_REORDER", "WF_COMPLIANCE_REMEDIATION",
     "WF_UNKNOWN"}

\* type and priority of the tasks of the caller-supplied workflow
CustomKinds ==
    { [task_type |-> "validation", priority |-> "low"],
      [task_type |-> "approval", priority |-> "critical"] }

\* caller-supplied task lists: n tasks, each depending on any of the other tasks
CustomTaskLists ==
    UNION { { tasks \in [1..n -> [kind : CustomKinds, deps : SUBSET (1..n)]] :
                \A i \in 1..n : i \notin tasks[i].deps } : n \in 1..MaxCustomTasks }

\* context maps handed to execute_workflow (None becomes {})
EmptyContext == [k \in {} |-> "none"]

Contexts == { EmptyContext, [k \in {"requester"} |-> "alice"] }

\* context.get(key, default)
ContextGet(context, key, default) ==
    IF key \in DOMAIN context THEN context[key] ELSE default

VARIABLES
    workflow_tasks,     \* self.workflow_tasks, in insertion order
    approval_requests,  \* self.approval_requests, in insertion order
    workflow_history,   \* self.workflow_history
    run,                \* the execute_workflow call in flight / last returned
    calls,              \* execute_workflow calls made so far
    faults,             \* handler exceptions raised so far
    business_rules,     \* self.business_rules
    rule_execution_history, \* self.rule_execution_history
    evaluation,         \* what the last evaluate_business_rule / batch call returned
    evals,              \* evaluate_business_rule calls made so far (the clock of last_executed)
    weekend,            \* datetime.now().weekday() >= 5
    threads,            \* the concurrent callers of evaluate_business_rule
    messages,           \* NotificationSystem.messages, by number of creation
    message_queue,      \* NotificationSystem.message_queue
    processing,         \* position of the process_notification_queue call
    clock               \* datetime.now() as the notification system reads it

vars == <<workflow_tasks, approval_requests, workflow_history, run, calls, faults,
          business_rules, rule_execution_history, evaluation, evals, weekend,
          threads, messages, message_queue, processing, clock>>

\* the state of the notification system
notification_vars == <<messages, message_queue, processing, clock>>

\* the state the rule engine owns apart from the approval store
rule_vars == <<business_rules, rule_execution_history, evaluation, evals, weekend>>

\* ----------------------------------------------------------- helpers
TaskIndices == 1..Len(workflow_tasks)

TaskIds == {workflow_tasks[i].task_id : i \in TaskIndices}

IndexOf(id) == CHOOSE i \in TaskIndices : workflow_tasks[i].task_id = id

TaskById(id) == workflow_tasks[IndexOf(id)]

\* [task for task in self.workflow_tasks.values() if task.workflow_id == workflow_id]
WorkflowTaskIndices(wf) == {i \in TaskIndices : workflow_tasks[i].workflow_id = wf}

\* sorted(workflow_tasks, key=lambda t: len(t.dependencies)) as a sequence of
\* task ids: ascending number of dependencies, equal keys in table order
RECURSIVE SortByDependencyCount(_)
SortByDependencyCount(S) ==
    IF S = {} THEN <<>>
    ELSE LET Key(i) == Cardinality(workflow_tasks[i].dependencies)
             m == CHOOSE i \in S : \A j \in S :
                     \/ Key(i) < Key(j)
                     \/ Key(i) = Key(j) /\ i <= j
         IN <<workflow_tasks[m].task_id>> \o SortByDependencyCount(S \ {m})

SortedTasks(wf) == SortByDependencyCount(WorkflowTaskIndices(wf))

\* the status _execute_workflow_task returns for a task; raises: the handler
\* (or anything else inside the try block) raised an exception
TaskResultStatus(task_type, raises) ==
    IF raises THEN "failed"
    ELSE IF task_type \in HoldingTypes THEN "pending"
    ELSE "completed"

\* the 'result' entry of the task result
TaskResultText(task_type, raises) ==
    IF raises THEN "error"
    ELSE IF task_type \in KnownTaskTypes THEN task_type
    ELSE "not implemented"

\* OverallStatus without the elif on tasks_pending
OverallStatusIgnoringPending(tasks_failed, tasks_pending) ==
    IF tasks_failed /= <<>> THEN "failed" ELSE "completed"

\* the overall status execute_workflow derives from the three result lists
OverallStatus(tasks_failed, tasks_pending) ==
    IF tasks_failed /= <<>> THEN "failed"
    ELSE IF tasks_pending /= <<>> THEN "pending"
    ELSE "completed"

\* ApprovalRequest created by _create_approval_request; the uuid-based
\* request_id is fresh: the number of the request in the store
NewApprovalRequest(requests, context) ==
    [request_id |-> Len(requests) + 1,
     request_type |-> "equipment_approval",
     requester |-> ContextGet(context, "requester", "unknown"),
     approver |-> ContextGet(context, "approver", "supervisor"),
     priority |-> "high",
     status |-> "pending"]

ApprovalRequest(context) == NewApprovalRequest(approval_requests, context)

\* execution_result as execute_workflow builds it before the task lookup
NewExecutionResult(wf, context) ==
    [pc |-> "running", workflow_id |-> wf, context |-> context, status |-> "running",
     sorted_tasks |-> <<>>, tasks_executed |-> <<>>, tasks_pending |-> <<>>,
     tasks_failed |-> <<>>, error |-> FALSE]

\* NoTasksResult without the early return: the status is derived from the
\* empty result lists
NoTasksResultCompleted(wf, context) ==
    [NewExecutionResult(wf, context) EXCEPT !.pc = "done", !.status = "completed"]

\* the result returned when the workflow id has no tasks
NoTasksResult(wf, context) ==
    [NewExecutionResult(wf, context) EXCEPT
        !.pc = "done", !.status = "failed", !.error = TRUE]

\* what is appended to workflow_history / returned: the result without the
\* executor's local variables
HistoryEntry(r) ==
    [workflow_id |-> r.workflow_id, context |-> r.context, status |-> r.status,
     tasks_executed |-> r.tasks_executed, tasks_pending |-> r.tasks_pending,
     tasks_failed |-> r.tasks_failed]

\* ------------------------------------------------------ the rule engine
\* values of context variables and of sub-expressions: Python int (bool is an
\* int), str, and function objects
IntV(n) == [t |-> "int", i |-> n, s |-> ""]

StrV(x) == [t |-> "str", i |-> 0, s |-> x]

FnV(name) == [t |-> "fn", i |-> 1, s |-> name]

BoolV(b) == IntV(IF b THEN 1 ELSE 0)

\* bool(value)
Truthy(v) ==
    CASE v.t = "int" -> v.i /= 0
      [] v.t = "str" -> v.s /= ""
      [] v.t = "fn" -> TRUE

\* the Python expressions that occur as rule conditions
Var(name) == [op |-> "var", name |-> name]

Const(v) == [op |-> "const", val |-> v]

Cmp(rel, l, r) == [op |-> "cmp", rel |-> rel, l |-> l, r |-> r]

And(l, r) == [op |-> "and", l |-> l, r |-> r]

Or(l, r) == [op |-> "or", l |-> l, r |-> r]

Call(fn, args) == [op |-> "call", fn |-> fn, args |-> args]

\* names bound in safe_globals before the context is added
Builtins == {"len", "str", "int", "float", "bool", "min", "max", "abs", "round"}

\* names bound in safe_globals after the context was added
BusinessFunctions == {"is_weekend", "days_between", "is_supervisor", "is_high_value"}

\* approval_thresholds.equipment_value
EquipmentValueThreshold == 1000

\* safe_globals: the builtins, updated with the context, updated with the
\* business functions
SafeGlobals(context) ==
    [name \in Builtins \cup DOMAIN context \cup BusinessFunctions |->
        IF name \in BusinessFunctions THEN FnV(name)
        ELSE IF name \in DOMAIN context THEN context[name]
        ELSE FnV(name)]

Ok(v) == [raised |-> FALSE, error |-> "none", val |-> v]

Raised(kind) == [raised |-> TRUE, error |-> kind, val |-> IntV(0)]

\* a comparison of two values; ordering an int against a str (or a function)
\* raises TypeError, == and != never raise. Two strings are only tested for
\* equality by the conditions of the model.
Compare(rel, a, b) ==
    CASE rel = "==" -> Ok(BoolV(a = b))
      [] rel = "!=" -> Ok(BoolV(a /= b))
      [] rel \in {"<", "<=", ">", ">="} /\ a.t = "int" /\ b.t = "int" ->
            Ok(BoolV(CASE rel = "<" -> a.i < b.i
                       [] rel = "<=" -> a.i <= b.i
                       [] rel = ">" -> a.i > b.i
                       [] rel = ">=" -> a.i >= b.i))
      [] rel \in {"<", "<=", ">", ">="} /\ (a.t /= b.t \/ a.t = "fn") ->
            Raised("TypeError")

\* the call of a business function of the model
CallFunction(fn, args, is_weekend) ==
    CASE fn = "is_weekend" /\ Len(args) = 0 -> Ok(BoolV(is_weekend))
      [] fn = "is_weekend" /\ Len(args) /= 0 -> Raised("TypeError")
      [] fn = "is_high_value" /\ Len(args) = 1 ->
            Compare(">", args[1], IntV(EquipmentValueThreshold))
      [] fn = "is_high_value" /\ Len(args) /= 1 -> Raised("TypeError")

\* eval(condition, safe_globals, {}): the value of the expression, or the
\* exception it raises
RECURSIVE Eval(_, _, _)
Eval(e, globals, is_weekend) ==
    CASE e.op = "const" -> Ok(e.val)
      [] e.op = "var" ->
            IF e.name \in DOMAIN globals THEN Ok(globals[e.name]) ELSE Raised("NameError")
      [] e.op = "cmp" ->
            LET l == Eval(e.l, globals, is_weekend)
                r == Eval(e.r, globals, is_weekend)
            IN IF l.raised THEN l ELSE IF r.raised THEN r ELSE Compare(e.rel, l.val, r.val)
      [] e.op = "and" ->
            LET l == Eval(e.l, globals, is_weekend)
            IN IF l.raised \/ ~Truthy(l.val) THEN l ELSE Eval(e.r, globals, is_weekend)
      [] e.op = "or" ->
            LET l == Eval(e.l, globals, is_weekend)
            IN IF l.raised \/ Truthy(l.val) THEN l ELSE Eval(e.r, globals, is_weekend)
      [] e.op = "call" ->
            IF e.fn \notin DOMAIN globals THEN Raised("NameError")
            ELSE IF globals[e.fn].t /= "fn" THEN Raised("TypeError")
            ELSE LET a == [k \in 1..Len(e.args) |-> Eval(e.args[k], globals, is_weekend)]
                 IN IF \E k \in 1..Len(e.args) : a[k].raised
                    THEN a[CHOOSE k \in 1..Len(e.args) :
                              a[k].raised /\ \A j \in 1..(k - 1) : ~a[j].raised]
                    ELSE CallFunction(globals[e.fn].s,
                                      [k \in 1..Len(e.args) |-> a[k].val], is_weekend)

\* ConditionEnvironment with safe_globals an alias of the caller's dict
ConditionEnvironmentAliased(context) ==
    [safe_globals |-> SafeGlobals(context), context |-> SafeGlobals(context)]

\* the two dicts after _evaluate_condition has built its environment:
\* safe_globals is a new dict, the caller's context is only read
ConditionEnvironment(context) ==
    [safe_globals |-> SafeGlobals(context), context |-> context]

\* the condition raises inside eval
ConditionRaises(condition, context, is_weekend) ==
    Eval(condition, ConditionEnvironment(context).safe_globals, is_weekend).raised

\* _evaluate_condition with the except branch returning True
EvaluateConditionTrueOnError(condition, context, is_weekend) ==
    LET r == Eval(condition, ConditionEnvironment(context).safe_globals, is_weekend)
    IN IF r.raised THEN TRUE ELSE Truthy(r.val)

\* _evaluate_condition: bool(eval(...)), False when anything raises
EvaluateCondition(condition, context, is_weekend) ==
    LET r == Eval(condition, ConditionEnvironment(context).safe_globals, is_weekend)
    IN IF r.raised THEN FALSE ELSE Truthy(r.val)

\* a BusinessRule as _setup_default_business_rules constructs it
BusinessRule(rule_id, rule_type, condition, action, priority) ==
    [rule_id |-> rule_id, rule_type |-> rule_type, condition |-> condition,
     action |-> action, priority |-> priority, enabled |-> TRUE,
     last_executed |-> 0, execution_count |-> 0]

\* self.business_rules after _setup_default_business_rules
DefaultBusinessRules ==
    LET rules == {
          BusinessRule("BR001", "approval",
              Cmp(">", Var("item_value"), Const(IntV(1000))),
              "create_approval_request", "high"),
          BusinessRule("BR002", "notification",
              Cmp("<=", Var("stock_level"), Const(IntV(5))),
              "send_critical_stock_alert", "critical"),
          BusinessRule("BR003", "escalation",
              Cmp(">=", Var("days_overdue"), Const(IntV(7))),
              "escalate_to_supervisor", "high"),
          BusinessRule("BR004", "validation",
              Or(Var("wo_req_missing"), Var("wo_req_invalid")),
              "require_valid_work_order", "medium"),
          BusinessRule("BR005", "automation",
              And(Cmp("<=", Var("stock_level"), Var("reorder_level")),
                  Var("auto_reorder_enabled")),
              "create_purchase_requisition", "medium"),
          BusinessRule("BR006", "notification",
              Cmp("<", Var("compliance_percentage"), Const(IntV(80))),
              "send_compliance_alert", "high"),
          BusinessRule("BR007", "approval",
              Cmp(">", Var("checkout_quantity"), Const(IntV(5))),
              "require_bulk_checkout_approval", "medium"),
          BusinessRule("BR008", "automation",
              Cmp("==", Var("category"), Const(StrV("Safety"))),
              "set_high_priority", "high") }
    IN [id \in {r.rule_id : r \in rules} |-> CHOOSE r \in rules : r.rule_id = id]

\* the action names _execute_rule_action has a branch for
KnownActions ==
    {"create_approval_request", "send_critical_stock_alert", "escalate_to_supervisor",
     "require_valid_work_order", "create_purchase_requisition", "send_compliance_alert",
     "require_bulk_checkout_approval", "set_high_priority"}

\* the message a handler returns: <<text, the value formatted into it>>
ActionMessage(action, context, requests) ==
    CASE action = "create_approval_request" ->
            <<"Created approval request", IntV(Len(requests) + 1)>>
      [] action = "send_critical_stock_alert" ->
            <<"Sent critical stock alert", ContextGet(context, "item_name", StrV("Unknown Item"))>>
      [] action = "escalate_to_supervisor" ->
            <<"Escalated to supervisor", ContextGet(context, "supervisor", StrV("Erasmus Ngwane"))>>
      [] action = "require_valid_work_order" ->
            <<"Work order validation required", ContextGet(context, "transaction_id", StrV("Unknown"))>>
      [] action = "create_purchase_requisition" ->
            <<"Created purchase requisition", ContextGet(context, "item_code", StrV("Unknown"))>>
      [] action = "send_compliance_alert" ->
            <<"Sent compliance alert", StrV("Compliance alert sent")>>
      [] action = "require_bulk_checkout_approval" ->
            <<"Required bulk checkout approval", ContextGet(context, "requester", StrV("Unknown"))>>
      [] action = "set_high_priority" ->
            <<"Set high priority", ContextGet(context, "request_id", StrV("Unknown"))>>
      [] OTHER -> <<"Unknown action", StrV(action)>>

\* _execute_rule_action: the list of messages and the approval store after it
ExecuteRuleAction(rule, context, requests) ==
    [actions_executed |-> <<ActionMessage(rule.action, context, requests)>>,
     requests |-> IF rule.action = "create_approval_request"
                  THEN Append(requests, NewApprovalRequest(requests, context))
                  ELSE requests]

\* a result of evaluate_business_rule; a key the code leaves out has the value
\* "none" (error, reason), FALSE (condition_met) or <<>> (actions_triggered);
\* context is the caller's dict as it is when the call returns (the result
\* holds a reference to it)
EvaluationResult(rule_id, evaluated, condition_met, actions, error, reason, context) ==
    [rule_id |-> rule_id, evaluated |-> evaluated, condition_met |-> condition_met,
     actions_triggered |-> actions, error |-> error, reason |-> reason,
     context |-> context]

\* RuleSkipped with the enabled flag ignored
RuleSkippedNever(rule) == FALSE

\* if not rule.enabled: the early return of evaluate_business_rule
RuleSkipped(rule) == ~rule.enabled

\* ExecutionCountAfter counting every evaluation
ExecutionCountAfterAlways(count, condition_met) == count + 1

\* rule.execution_count after an evaluation: += 1 inside if condition_met
ExecutionCountAfter(count, condition_met) ==
    IF condition_met THEN count + 1 ELSE count

\* HistoryCopy losing the actions that were triggered
HistoryCopyWithoutActions(result) == [result EXCEPT !.actions_triggered = <<>>]

\* evaluation_result.copy(), the entry stored in the history
HistoryCopy(result) == result

\* RuleHistoryAfter keeping the newest entry first
RuleHistoryNewestFirst(history, entry) == <<entry>> \o history

\* self.rule_execution_history.append(entry)
RuleHistoryAfter(history, entry) == Append(history, entry)

\* evaluate_business_rule as a function of the engine state: the rules, the
\* history and the approval store after the call, and the result returned.
\* now is the clock value stored as last_executed.
EvaluateBusinessRule(rules, history, requests, now, is_weekend, rule_id, context) ==
    IF rule_id \notin DOMAIN rules
    THEN [rules |-> rules, history |-> history, requests |-> requests,
          result |-> EvaluationResult(rule_id, FALSE, FALSE, <<>>, "not found", "none", context)]
    ELSE IF RuleSkipped(rules[rule_id])
    THEN [rules |-> rules, history |-> history, requests |-> requests,
          result |-> EvaluationResult(rule_id, FALSE, FALSE, <<>>, "none", "Rule is disabled", context)]
    ELSE LET rule == rules[rule_id]
             condition_met == EvaluateCondition(rule.condition, context, is_weekend)
             done == ExecuteRuleAction(rule, context, requests)
             result == EvaluationResult(rule_id, TRUE, condition_met,
                           IF condition_met THEN done.actions_executed ELSE <<>>,
                           "none", "none", ConditionEnvironment(context).context)
         IN [rules |-> [rules EXCEPT
                          ![rule_id].last_executed = IF condition_met THEN now ELSE @,
                          ![rule_id].execution_count =
                              ExecutionCountAfter(@, condition_met)],
             history |-> RuleHistoryAfter(history, HistoryCopy(result)),
             requests |-> IF condition_met THEN done.requests ELSE requests,
             result |-> result]

\* ------------------------------------------------ inputs of the rule engine
\* contexts handed to evaluate_business_rule: an item low on stock, an item
\* well stocked, an item whose quantity cell holds text, and an empty context
LowStockContext ==
    ("stock_level" :> IntV(3)) @@ ("reorder_level" :> IntV(5)) @@
    ("item_value" :> IntV(1500)) @@ ("category" :> StrV("Safety")) @@
    ("auto_reorder_enabled" :> BoolV(TRUE))

HighStockContext ==
    ("stock_level" :> IntV(8)) @@ ("reorder_level" :> IntV(5)) @@
    ("item_value" :> IntV(500)) @@ ("category" :> StrV("Tools")) @@
    ("auto_reorder_enabled" :> BoolV(TRUE))

TextStockContext ==
    ("stock_level" :> StrV("n/a")) @@ ("reorder_level" :> IntV(5)) @@
    ("item_value" :> IntV(1500)) @@ ("category" :> StrV("Safety")) @@
    ("auto_reorder_enabled" :> BoolV(TRUE))

EmptyRuleContext == [k \in {} |-> IntV(0)]

RuleContexts == {LowStockContext, HighStockContext, TextStockContext, EmptyRuleContext}

\* the rule a caller adds to self.business_rules
CustomRuleId == "BR_CUSTOM"

\* its condition and action: a call of a function that is not registered with
\* a known action, or a call of is_weekend() with an action that has no handler
CustomRules ==
    { [condition |-> Call("unknown_fn", <<>>), action |-> "create_approval_request"],
      [condition |-> Call("is_weekend", <<>>), action |-> "notify_warehouse"] }

\* rule ids evaluate_business_rule is called with; BR999 is never a rule
EvaluatedRuleIds == {"BR001", "BR002", CustomRuleId, "BR999"}

\* rules whose enabled flag the administrator switches
SwitchedRuleIds == {"BR002"}

\* ------------------------------------------------------ batch evaluation
\* workflow_rules.approval_required_categories
ApprovalRequiredCategories == {"Safety", "Access Control"}

\* the context process_inventory_business_rules builds for an item
\* (auto_reorder_enabled is workflow_rules.auto_reorder_enabled = True)
InventoryContext(item) ==
    ("item_code" :> item.item_code) @@ ("item_name" :> item.item_name) @@
    ("category" :> item.category) @@ ("stock_level" :> item.quantity) @@
    ("reorder_level" :> item.reorder_level) @@ ("item_value" :> item.unit_price) @@
    ("total_value" :> item.total_value) @@ ("supplier" :> item.supplier) @@
    ("auto_reorder_enabled" :> BoolV(TRUE))

\* relevant_rules for an item
RelevantInventoryRules(item) ==
    <<"BR002", "BR005">> \o
    (IF item.category.s \in ApprovalRequiredCategories THEN <<"BR008">> ELSE <<>>)

\* the (rule, context) pairs of the nested loops, in evaluation order
RECURSIVE InventoryPairs(_)
InventoryPairs(items) ==
    IF items = <<>> THEN <<>>
    ELSE [k \in 1..Len(RelevantInventoryRules(Head(items))) |->
             [rule_id |-> RelevantInventoryRules(Head(items))[k],
              context |-> InventoryContext(Head(items))]]
         \o InventoryPairs(Tail(items))

\* the context of the work order metric, as it is after the adjustments made
\* for BR004 (all results hold a reference to this one dict)
WorkOrderContext(percentage) ==
    ("compliance_type" :> StrV("work_order")) @@ ("compliance_percentage" :> IntV(percentage)) @@
    ("target_percentage" :> IntV(95)) @@ ("risk_level" :> StrV("unknown")) @@
    ("wo_req_missing" :> BoolV(percentage < 95)) @@
    ("wo_req_invalid" :> BoolV(percentage < 80))

\* the context of the tool return metric
ToolReturnContext(percentage) ==
    ("compliance_type" :> StrV("tool_return")) @@ ("compliance_percentage" :> IntV(percentage)) @@
    ("target_percentage" :> IntV(95)) @@ ("days_overdue" :> IntV(7))

\* the (rule, context) pairs process_compliance_business_rules evaluates;
\* a metric is [present, percentage]
CompliancePairs(metrics) ==
    (IF metrics.work_order.present
     THEN << [rule_id |-> "BR004", context |-> WorkOrderContext(metrics.work_order.percentage)],
             [rule_id |-> "BR006", context |-> WorkOrderContext(metrics.work_order.percentage)] >>
     ELSE <<>>) \o
    (IF metrics.tool_return.present
     THEN << [rule_id |-> "BR003", context |-> ToolReturnContext(metrics.tool_return.percentage)],
             [rule_id |-> "BR006", context |-> ToolReturnContext(metrics.tool_return.percentage)] >>
     ELSE <<>>)

\* RemainingPairs with an exception of the condition leaving the loops
RemainingPairsNoneAfterError(pairs, raised) ==
    IF raised THEN <<>> ELSE Tail(pairs)

\* the pairs the loops go on with after an evaluation: evaluate_business_rule
\* returns a result also when the condition raised, so the loops continue
RemainingPairs(pairs, raised) == Tail(pairs)

\* the loops over the pairs: for each rule id that is a rule, one call of
\* evaluate_business_rule whose result is appended to rule_results
RECURSIVE EvaluateAll(_, _, _)
EvaluateAll(st, pairs, is_weekend) ==
    IF pairs = <<>> THEN st
    ELSE LET pair == Head(pairs) IN
         IF pair.rule_id \notin DOMAIN st.rules
         THEN EvaluateAll(st, Tail(pairs), is_weekend)
         ELSE LET out == EvaluateBusinessRule(st.rules, st.history, st.requests,
                             st.now + 1, is_weekend, pair.rule_id, pair.context)
                  raised == /\ ~RuleSkipped(st.rules[pair.rule_id])
                            /\ ConditionRaises(st.rules[pair.rule_id].condition,
                                               pair.context, is_weekend)
              IN EvaluateAll(
                     [rules |-> out.rules, history |-> out.history, requests |-> out.requests,
                      now |-> st.now + 1, results |-> Append(st.results, out.result)],
                     RemainingPairs(pairs, raised), is_weekend)

\* inventory items: one low on stock in an approval-required category, one
\* well stocked, and one whose reorder_level holds text. The dataclass does not
\* enforce its annotations; the loader itself leaves reorder_level at 10, so
\* the third item stands for an item a caller has put into the manager. It is
\* the only way a condition of a batch can raise.
InventoryItem(code, category, quantity, reorder_level, unit_price) ==
    [item_code |-> StrV(code), item_name |-> StrV(code), category |-> StrV(category),
     quantity |-> IntV(quantity), reorder_level |-> reorder_level,
     unit_price |-> IntV(unit_price), total_value |-> IntV(quantity * unit_price),
     supplier |-> StrV("Supplier")]

InventoryItems ==
    { InventoryItem("SAF001", "Safety", 3, IntV(10), 1500),
      InventoryItem("TOL001", "Tools", 50, IntV(10), 200),
      InventoryItem("ELE001", "Electrical", 3, StrV("n/a"), 100) }

\* inventory_manager.items.values(): up to MaxItems different items in any order
Inventories ==
    UNION { { items \in [1..n -> InventoryItems] :
                \A i, j \in 1..n : i /= j => items[i] /= items[j] } : n \in 1..MaxItems }

\* compliance_metrics of the analytics engine: each metric is missing or has a
\* compliance percentage
ComplianceMetric == { [present |-> FALSE, percentage |-> 0],
                      [present |-> TRUE, percentage |-> 70],
                      [present |-> TRUE, percentage |-> 97] }

ComplianceMetrics == [work_order : ComplianceMetric, tool_return : ComplianceMetric]

\* ------------------------------------------------- concurrent callers
\* a caller that has not called evaluate_business_rule yet
IdleThread ==
    [pc |-> "idle", rule_id |-> "none", context |-> EmptyRuleContext,
     result |-> EvaluationResult("none", FALSE, FALSE, <<>>, "none", "none", EmptyRuleContext),
     loaded |-> 0]

\* the rules and contexts the concurrent callers evaluate
ConcurrentRuleIds == {"BR001", "BR002"}

ConcurrentContexts == {LowStockContext, HighStockContext}

\* ------------------------------------------------ the notification system
\* NotificationStatus values a message takes
NotificationPending == "pending"

NotificationSent == "sent"

NotificationFailed == "failed"

\* config['system']['max_retry_attempts']
MaxRetryAttempts == 3

\* scheduled_date = None
NoDate == -1

\* the scheduled dates of the messages created: none, or the instant 1
ScheduledDates == {NoDate, 1}

\* a NotificationMessage as create_notification constructs it
NotificationMessage(scheduled_date) ==
    [status |-> NotificationPending, delivery_attempts |-> 0,
     scheduled_date |-> scheduled_date]

\* message.scheduled_date and message.scheduled_date > datetime.now()
ScheduledForFuture(message, now) ==
    message.scheduled_date /= NoDate /\ message.scheduled_date > now

\* Requeued with the comparison including max_retry_attempts
RequeuedOnceMore(delivery_attempts) == delivery_attempts <= MaxRetryAttempts

\* message.delivery_attempts < max_retry_attempts: the message is queued again
Requeued(delivery_attempts) == delivery_attempts < MaxRetryAttempts

\* -------------------------------------------------------------- Init
Init ==
    /\ workflow_tasks = InitializeWorkflows
    /\ approval_requests = <<>>
    /\ workflow_history = <<>>
    /\ run = [NewExecutionResult("WF_UNKNOWN", EmptyContext) EXCEPT !.pc = "idle", !.status = "none"]
    /\ calls = 0
    /\ faults = 0
    /\ business_rules = DefaultBusinessRules
    /\ rule_execution_history = <<>>
    /\ evaluation = [kind |-> "none", context |-> EmptyRuleContext, pairs |-> <<>>,
                     results |-> <<>>, error |-> FALSE]
    /\ evals = 0
    /\ weekend \in BOOLEAN
    /\ threads = [t \in 1..MaxThreads |-> IdleThread]
    /\ messages = <<>>
    /\ message_queue = <<>>
    /\ processing = "idle"
    /\ clock = 0

\* ------------------------------------------------------------ actions
\* for task in tasks: self.workflow_tasks[task.task_id] = task
\* with a caller-supplied task list (the table is filled this way only)
RegisterWorkflow(tasks) ==
    /\ run.pc /= "running"
    /\ WorkflowTaskIndices(CustomWorkflowId) = {}
    /\ workflow_tasks' = workflow_tasks \o
          [n \in 1..Len(tasks) |->
              WorkflowTask(CustomWorkflowId, n, tasks[n].kind.task_type,
                           tasks[n].kind.priority, tasks[n].deps)]
    /\ UNCHANGED <<approval_requests, workflow_history, run, calls, faults>>
    /\ UNCHANGED <<rule_vars, threads, notification_vars>>

\* execute_workflow up to the for loop
StartWorkflow(wf, context) ==
    /\ run.pc /= "running"
    /\ calls < MaxCalls
    /\ calls' = calls + 1
    /\ IF WorkflowTaskIndices(wf) = {}
       THEN run' = NoTasksResult(wf, context)
       ELSE run' = [NewExecutionResult(wf, context) EXCEPT
                       !.sorted_tasks = SortedTasks(wf)]
    /\ UNCHANGED <<workflow_tasks, approval_requests, workflow_history, faults>>
    /\ UNCHANGED <<rule_vars, threads, notification_vars>>

\* one iteration of the for loop: _execute_workflow_task and the bookkeeping
ExecuteTask(raises) ==
    /\ run.pc = "running"
    /\ run.sorted_tasks /= <<>>
    /\ raises => faults < MaxFaults
    /\ LET id == Head(run.sorted_tasks)
           task == TaskById(id)
           status == TaskResultStatus(task.task_type, raises)
           task_result == [task_id |-> id, status |-> status,
                           result |-> TaskResultText(task.task_type, raises)]
       IN /\ approval_requests' =
                IF ~raises /\ task.task_type = "approval"
                THEN Append(approval_requests, ApprovalRequest(run.context))
                ELSE approval_requests
          /\ workflow_tasks' =
                IF status = "completed"
                THEN [workflow_tasks EXCEPT ![IndexOf(id)].status = COMPLETED]
                ELSE IF status = "failed"
                THEN [workflow_tasks EXCEPT ![IndexOf(id)].status = FAILED]
                ELSE workflow_tasks
          /\ run' = [run EXCEPT
                !.sorted_tasks = Tail(@),
                !.tasks_executed = IF status = "completed" THEN Append(@, task_result) ELSE @,
                !.tasks_failed = IF status = "failed" THEN Append(@, task_result) ELSE @,
                !.tasks_pending = IF status \notin {"completed", "failed"}
                                  THEN Append(@, task_result) ELSE @]
    /\ faults' = IF raises THEN faults + 1 ELSE faults
    /\ UNCHANGED <<workflow_history, calls>>
    /\ UNCHANGED <<rule_vars, threads, notification_vars>>

\* execute_workflow after the for loop
FinishWorkflow ==
    /\ run.pc = "running"
    /\ run.sorted_tasks = <<>>
    /\ LET result == [run EXCEPT !.pc = "done",
                         !.status = OverallStatus(run.tasks_failed, run.tasks_pending)]
       IN /\ run' = result
          /\ workflow_history' = Append(workflow_history, HistoryEntry(result))
    /\ UNCHANGED <<workflow_tasks, approval_requests, calls, faults>>
    /\ UNCHANGED <<rule_vars, threads, notification_vars>>

\* self.business_rules[rule.rule_id] = rule with a caller-supplied rule
RegisterRule(condition, action) ==
    /\ CustomRuleId \notin DOMAIN business_rules
    /\ business_rules' =
          [id \in DOMAIN business_rules \cup {CustomRuleId} |->
              IF id = CustomRuleId
              THEN BusinessRule(CustomRuleId, "automation", condition, action, "medium")
              ELSE business_rules[id]]
    /\ UNCHANGED <<workflow_tasks, approval_requests, workflow_history, run, calls, faults>>
    /\ UNCHANGED <<rule_execution_history, evaluation, evals, weekend>>
    /\ UNCHANGED <<threads, notification_vars>>

\* rule.enabled = enabled, the flag evaluate_business_rule tests
SetRuleEnabled(rule_id, enabled) ==
    /\ rule_id \in DOMAIN business_rules
    /\ business_rules[rule_id].enabled /= enabled
    /\ business_rules' = [business_rules EXCEPT ![rule_id].enabled = enabled]
    /\ UNCHANGED <<workflow_tasks, approval_requests, workflow_history, run, calls, faults>>
    /\ UNCHANGED <<rule_execution_history, evaluation, evals, weekend>>
    /\ UNCHANGED <<threads, notification_vars>>

\* time passes: the week-end begins or ends
Tick ==
    /\ weekend' = ~weekend
    /\ UNCHANGED <<workflow_tasks, approval_requests, workflow_history, run, calls, faults>>
    /\ UNCHANGED <<business_rules, rule_execution_history, evaluation, evals>>
    /\ UNCHANGED <<threads, notification_vars>>

\* evaluate_business_rule(rule_id, context)
EvaluateRule(rule_id, context) ==
    /\ run.pc /= "running"
    /\ evals < MaxEvals
    /\ evals' = evals + 1
    /\ LET out == EvaluateBusinessRule(business_rules, rule_execution_history,
                      approval_requests, evals + 1, weekend, rule_id, context)
       IN /\ business_rules' = out.rules
          /\ rule_execution_history' = out.history
          /\ approval_requests' = out.requests
          /\ evaluation' = [kind |-> "evaluate", context |-> context,
                            pairs |-> <<[rule_id |-> rule_id, context |-> context]>>,
                            results |-> <<out.result>>, error |-> FALSE]
    /\ UNCHANGED <<workflow_tasks, workflow_history, run, calls, faults, weekend>>
    /\ UNCHANGED <<threads, notification_vars>>

\* a batch: the early return without the collaborator, else the loops over
\* pairs; evaluation records the pairs the call had to evaluate and what
\* it returned (rule_results, or the error)
ProcessBusinessRules(kind, available, pairs) ==
    /\ run.pc /= "running"
    /\ evals < MaxEvals
    /\ IF ~available
       THEN /\ evaluation' = [kind |-> kind, context |-> EmptyRuleContext, pairs |-> <<>>,
                              results |-> <<>>, error |-> TRUE]
            /\ UNCHANGED <<business_rules, rule_execution_history, approval_requests, evals>>
       ELSE LET out == EvaluateAll([rules |-> business_rules,
                                    history |-> rule_execution_history,
                                    requests |-> approval_requests,
                                    now |-> evals, results |-> <<>>], pairs, weekend)
            IN /\ business_rules' = out.rules
               /\ rule_execution_history' = out.history
               /\ approval_requests' = out.requests
               /\ evals' = out.now
               /\ evaluation' = [kind |-> kind, context |-> EmptyRuleContext,
                                 pairs |-> pairs, results |-> out.results, error |-> FALSE]
    /\ UNCHANGED <<workflow_tasks, workflow_history, run, calls, faults, weekend>>
    /\ UNCHANGED <<threads, notification_vars>>

\* process_inventory_business_rules; available: self.inventory_manager is set
ProcessInventoryBusinessRules(available, items) ==
    ProcessBusinessRules("inventory", available, InventoryPairs(items))

\* process_compliance_business_rules; available: self.analytics_engine is set
ProcessComplianceBusinessRules(available, metrics) ==
    ProcessBusinessRules("compliance", available, CompliancePairs(metrics))

\* evaluate_business_rule called by caller t, up to the statistics update:
\* the lookup, the enabled test, the condition and the action
ThreadBegin(t, rule_id, context) ==
    /\ threads[t].pc = "idle"
    /\ evals' = evals + 1
    /\ IF rule_id \notin DOMAIN business_rules
       THEN /\ threads' = [threads EXCEPT ![t] =
                   [pc |-> "returned", rule_id |-> rule_id, context |-> context,
                    result |-> EvaluationResult(rule_id, FALSE, FALSE, <<>>,
                                                "not found", "none", context),
                    loaded |-> 0]]
            /\ UNCHANGED approval_requests
       ELSE IF RuleSkipped(business_rules[rule_id])
       THEN /\ threads' = [threads EXCEPT ![t] =
                   [pc |-> "returned", rule_id |-> rule_id, context |-> context,
                    result |-> EvaluationResult(rule_id, FALSE, FALSE, <<>>,
                                                "none", "Rule is disabled", context),
                    loaded |-> 0]]
            /\ UNCHANGED approval_requests
       ELSE LET rule == business_rules[rule_id]
                condition_met == EvaluateCondition(rule.condition, context, weekend)
                done == ExecuteRuleAction(rule, context, approval_requests)
            IN /\ threads' = [threads EXCEPT ![t] =
                      [pc |-> IF condition_met THEN "load" ELSE "append",
                       rule_id |-> rule_id, context |-> context,
                       result |-> EvaluationResult(rule_id, TRUE, condition_met,
                                     IF condition_met THEN done.actions_executed ELSE <<>>,
                                     "none", "none", ConditionEnvironment(context).context),
                       loaded |-> 0]]
               /\ approval_requests' = IF condition_met THEN done.requests
                                       ELSE approval_requests
    /\ UNCHANGED <<workflow_tasks, workflow_history, run, calls, faults>>
    /\ UNCHANGED <<business_rules, rule_execution_history, evaluation, weekend>>
    /\ UNCHANGED notification_vars

\* rule.last_executed = datetime.now() and the read of rule.execution_count
\* that begins `rule.execution_count += 1`
ThreadLoad(t) ==
    /\ threads[t].pc = "load"
    /\ business_rules' = [business_rules EXCEPT ![threads[t].rule_id].last_executed = evals]
    /\ threads' = [threads EXCEPT
                      ![t].pc = "store",
                      ![t].loaded = business_rules[threads[t].rule_id].execution_count]
    /\ UNCHANGED <<workflow_tasks, approval_requests, workflow_history, run, calls, faults>>
    /\ UNCHANGED <<rule_execution_history, evaluation, evals, weekend>>
    /\ UNCHANGED notification_vars

\* the write that ends `rule.execution_count += 1`
ThreadStore(t) ==
    /\ threads[t].pc = "store"
    /\ business_rules' = [business_rules EXCEPT ![threads[t].rule_id].execution_count =
                             ExecutionCountAfter(threads[t].loaded, TRUE)]
    /\ threads' = [threads EXCEPT ![t].pc = "append"]
    /\ UNCHANGED <<workflow_tasks, approval_requests, workflow_history, run, calls, faults>>
    /\ UNCHANGED <<rule_execution_history, evaluation, evals, weekend>>
    /\ UNCHANGED notification_vars

\* self.rule_execution_history.append(evaluation_result.copy()) and the return
ThreadAppend(t) ==
    /\ threads[t].pc = "append"
    /\ rule_execution_history' =
          RuleHistoryAfter(rule_execution_history, HistoryCopy(threads[t].result))
    /\ threads' = [threads EXCEPT ![t].pc = "returned"]
    /\ UNCHANGED <<workflow_tasks, approval_requests, workflow_history, run, calls, faults>>
    /\ UNCHANGED <<business_rules, evaluation, evals, weekend>>
    /\ UNCHANGED notification_vars

\* create_notification: template_usable is false when the template is
\* missing or disabled, and the call raises before anything is stored
CreateNotification(template_usable, scheduled_date) ==
    /\ Len(messages) < MaxMessages
    /\ IF template_usable
       THEN /\ messages' = Append(messages, NotificationMessage(scheduled_date))
            /\ message_queue' = Append(message_queue, Len(messages) + 1)
       ELSE UNCHANGED <<messages, message_queue>>
    /\ UNCHANGED <<processing, clock, threads>>
    /\ UNCHANGED <<workflow_tasks, approval_requests, workflow_history, run, calls, faults>>
    /\ UNCHANGED rule_vars

\* process_notification_queue is called
StartProcessing ==
    /\ processing = "idle"
    /\ processing' = "loop"
    /\ UNCHANGED <<messages, message_queue, clock, threads>>
    /\ UNCHANGED <<workflow_tasks, approval_requests, workflow_history, run, calls, faults>>
    /\ UNCHANGED rule_vars

\* one iteration of `while not self.message_queue.empty()`; delivered is what
\* _deliver_notification returns
ProcessMessage(delivered) ==
    /\ processing = "loop"
    /\ message_queue /= <<>>
    /\ LET message_id == Head(message_queue)
           message == messages[message_id]
       IN IF ScheduledForFuture(message, clock)
          THEN /\ message_queue' = Append(Tail(message_queue), message_id)
               /\ UNCHANGED messages
          ELSE IF delivered
          THEN /\ messages' = [messages EXCEPT ![message_id].status = NotificationSent]
               /\ message_queue' = Tail(message_queue)
          ELSE LET attempts == message.delivery_attempts + 1
               IN /\ messages' = [messages EXCEPT
                        ![message_id].delivery_attempts = attempts,
                        ![message_id].status =
                            IF Requeued(attempts) THEN @ ELSE NotificationFailed]
                  /\ message_queue' =
                        IF Requeued(attempts)
                        THEN Append(Tail(message_queue), message_id)
                        ELSE Tail(message_queue)
    /\ UNCHANGED <<processing, clock, threads>>
    /\ UNCHANGED <<workflow_tasks, approval_requests, workflow_history, run, calls, faults>>
    /\ UNCHANGED rule_vars

\* the queue is empty: the loop ends and process_notification_queue returns
FinishProcessing ==
    /\ processing = "loop"
    /\ message_queue = <<>>
    /\ processing' = "idle"
    /\ UNCHANGED <<messages, message_queue, clock, threads>>
    /\ UNCHANGED <<workflow_tasks, approval_requests, workflow_history, run, calls, faults>>
    /\ UNCHANGED rule_vars

\* time passes for the notification system
AdvanceClock ==
    /\ clock < MaxClock
    /\ clock' = clock + 1
    /\ UNCHANGED <<messages, message_queue, processing, threads>>
    /\ UNCHANGED <<workflow_tasks, approval_requests, workflow_history, run, calls, faults>>
    /\ UNCHANGED rule_vars

Next ==
    \/ \E wf \in WorkflowIds, context \in Contexts : StartWorkflow(wf, context)
    \/ \E raises \in BOOLEAN : ExecuteTask(raises)
    \/ FinishWorkflow

Spec == Init /\ [][Next]_vars

\* the same executor on a workflow the caller has put into the task table
NextCustom ==
    \/ \E tasks \in CustomTaskLists : RegisterWorkflow(tasks)
    \/ \E context \in Contexts : StartWorkflow(CustomWorkflowId, context)
    \/ \E raises \in BOOLEAN : ExecuteTask(raises)
    \/ FinishWorkflow

SpecCustom == Init /\ [][NextCustom]_vars

\* the rule engine: rule evaluations between which rules are added and
\* switched, time passes and a workflow with an approval task runs
NextRules ==
    \/ \E rule \in CustomRules : RegisterRule(rule.condition, rule.action)
    \/ \E rule_id \in SwitchedRuleIds, enabled \in BOOLEAN : SetRuleEnabled(rule_id, enabled)
    \/ Tick
    \/ \E rule_id \in EvaluatedRuleIds, context \in RuleContexts :
          EvaluateRule(rule_id, context)
    \/ calls = 0 /\ StartWorkflow("WF_EQUIPMENT_CHECKOUT", EmptyContext)
    \/ ExecuteTask(FALSE)
    \/ FinishWorkflow

SpecRules == Init /\ [][NextRules]_vars

\* batch evaluations between which a rule is switched off and on
NextBatch ==
    \/ \E rule_id \in SwitchedRuleIds, enabled \in BOOLEAN : SetRuleEnabled(rule_id, enabled)
    \/ \E available \in BOOLEAN, items \in Inventories :
          ProcessInventoryBusinessRules(available, items)
    \/ \E available \in BOOLEAN, metrics \in ComplianceMetrics :
          ProcessComplianceBusinessRules(available, metrics)

SpecBatch == Init /\ [][NextBatch]_vars

\* callers that evaluate rules at the same time, each call in the steps
\* between which another thread can run
NextConcurrent ==
    \/ \E t \in 1..MaxThreads, rule_id \in ConcurrentRuleIds, context \in ConcurrentContexts :
          ThreadBegin(t, rule_id, context)
    \/ \E t \in 1..MaxThreads : ThreadLoad(t)
    \/ \E t \in 1..MaxThreads : ThreadStore(t)
    \/ \E t \in 1..MaxThreads : ThreadAppend(t)

SpecConcurrent == Init /\ [][NextConcurrent]_vars

\* the notification system: messages are created while the queue is processed
\* and time passes
NextNotifications ==
    \/ \E template_usable \in BOOLEAN, scheduled_date \in ScheduledDates :
          CreateNotification(template_usable, scheduled_date)
    \/ StartProcessing
    \/ \E delivered \in BOOLEAN : ProcessMessage(delivered)
    \/ FinishProcessing
    \/ AdvanceClock

SpecNotifications == Init /\ [][NextNotifications]_vars

\* the same with the scheduling the code has: a process_notification_queue
\* call that can take a step of its own takes it; nothing is assumed about
\* the callers of create_notification or about the clock
SpecNotificationsLive ==
    /\ SpecNotifications
    /\ WF_vars(\E delivered \in BOOLEAN : ProcessMessage(delivered))
    /\ WF_vars(FinishProcessing)

\* ------------------------------------------- vocabulary of the properties
\* task ids of a result list
ResultIds(results) == {results[i].task_id : i \in 1..Len(results)}

\* tasks whose handler has been invoked in the current / last call
RunInvoked ==
    ResultIds(run.tasks_executed) \cup ResultIds(run.tasks_pending) \cup ResultIds(run.tasks_failed)

\* the call has returned and had found tasks
RunReturned == run.pc = "done" /\ ~run.error

\* this step invokes the handler of task id
Starts(id) ==
    /\ run.pc = "running"
    /\ run.sorted_tasks /= <<>>
    /\ Head(run.sorted_tasks) = id
    /\ run'.sorted_tasks = Tail(run.sorted_tasks)

StatusOf(id) == TaskById(id).status

\* declared dependencies that are tasks of the table
DependenciesOf(id) == TaskById(id).dependencies \cap TaskIds

RECURSIVE DependencyClosure(_)
DependencyClosure(S) ==
    LET N == S \cup UNION {DependenciesOf(id) : id \in S}
    IN IF N = S THEN S ELSE DependencyClosure(N)

TransitiveDependencies(id) == DependencyClosure(DependenciesOf(id))

TransitiveDependents(id) == {u \in TaskIds : id \in TransitiveDependencies(u)}

\* the dependencies of the tasks of workflow wf contain a cycle
Cyclic(wf) ==
    \E i \in WorkflowTaskIndices(wf) :
        workflow_tasks[i].task_id \in TransitiveDependencies(workflow_tasks[i].task_id)

\* a task that has not run yet and whose dependencies are all Completed
Ready(id) ==
    /\ StatusOf(id) = PENDING
    /\ \A d \in DependenciesOf(id) : StatusOf(d) = COMPLETED

\* Critical > High > Medium > Low
PriorityRank(p) ==
    CASE p = "critical" -> 0 [] p = "high" -> 1 [] p = "medium" -> 2 [] p = "low" -> 3

ReorderTask(n) == TaskId("WF_INVENTORY_REORDER", n)

\* ------------------------------------------------------------ properties

\* C1 - dependency ordering: the handler of a task is never invoked while one
\* of the task's declared dependencies has a status other than Completed.
C1_DependencyOrdering ==
    [][\A id \in TaskIds :
          Starts(id) => \A d \in DependenciesOf(id) : StatusOf(d) = COMPLETED]_vars

\* C2 - a (fault-free) run of WF_INVENTORY_REORDER completes tasks 001 and 002,
\* leaves 003 (Budget Approval) on hold, does not execute or complete 004 and
\* 005, and is not Completed as long as nobody resumed the approval.
C2_ReorderSuspendsAtBudgetApproval ==
    (RunReturned /\ run.workflow_id = "WF_INVENTORY_REORDER" /\ run.tasks_failed = <<>>) =>
        /\ {ReorderTask(1), ReorderTask(2)} \subseteq ResultIds(run.tasks_executed)
        /\ StatusOf(ReorderTask(3)) = ON_HOLD
        /\ RunInvoked \cap {ReorderTask(4), ReorderTask(5)} = {}
        /\ StatusOf(ReorderTask(4)) /= COMPLETED
        /\ StatusOf(ReorderTask(5)) /= COMPLETED
        /\ run.status /= "completed"

\* C3 - failure propagation: when a run returns, every transitive dependent of
\* a task that failed in it is Cancelled and was not executed, and the run's
\* overall status is failed.
C3_FailurePropagation ==
    RunReturned =>
        \A f \in ResultIds(run.tasks_failed) :
            /\ run.status = "failed"
            /\ \A u \in TransitiveDependents(f) :
                  /\ StatusOf(u) = CANCELLED
                  /\ u \notin ResultIds(run.tasks_executed)

\* C4 - task outcome by type: a task whose handler ran (without raising) in the
\* current call is stored Completed when its type is validation, data_entry,
\* scheduling, monitoring or documentation, and stored OnHold when its type is
\* approval or procurement.
C4_TaskOutcomeByType ==
    \A id \in ResultIds(run.tasks_executed) \cup ResultIds(run.tasks_pending) :
        /\ TaskById(id).task_type \in CompletingTypes => StatusOf(id) = COMPLETED
        /\ TaskById(id).task_type \in HoldingTypes => StatusOf(id) = ON_HOLD

\* C5 - derived Completed status: a run that found tasks returns 'completed'
\* exactly when every task of its workflow is stored Completed at its end.
C5_CompletedIffAllTasksCompleted ==
    RunReturned =>
        (run.status = "completed" <=>
            \A i \in WorkflowTaskIndices(run.workflow_id) : workflow_tasks[i].status = COMPLETED)

\* C5 witness: a run returned 'completed' with all five tasks stored Completed,
\* after another run returned something else with a task not Completed
C5_Witness ==
    /\ RunReturned
    /\ run.status = "completed"
    /\ Len(run.tasks_executed) = 5
    /\ \E i \in TaskIndices : workflow_tasks[i].status /= COMPLETED
    /\ \E h \in 1..Len(workflow_history) : workflow_history[h].status /= "completed"

\* C6 - derived Failed/Pending status: a returned run is 'failed' exactly when
\* a task of its workflow is Failed and none is waiting (on hold / pending a
\* decision); with a Failed task and a waiting task it is 'pending'.
C6_FailedIffFailedAndNoneWaiting ==
    RunReturned =>
        LET ids == {workflow_tasks[i].task_id : i \in WorkflowTaskIndices(run.workflow_id)}
            someFailed == \E id \in ids : StatusOf(id) = FAILED
            someWaiting == \E id \in ids :
                              StatusOf(id) = ON_HOLD \/ id \in ResultIds(run.tasks_pending)
        IN /\ run.status = "failed" <=> (someFailed /\ ~someWaiting)
           /\ (someFailed /\ someWaiting) => run.status = "pending"

\* C7 - DAG validity: a workflow whose dependencies contain a cycle is rejected,
\* so execute_workflow never invokes the handler of any of its tasks.
C7_CyclicWorkflowNeverExecuted ==
    (run.pc /= "idle" /\ Cyclic(run.workflow_id)) => RunInvoked = {}

\* C8 - unknown task types are rejected: no run ever executes, or marks
\* Completed, a task whose type is not one of the seven known types.
C8_UnknownTypeNeverExecuted ==
    \A i \in TaskIndices :
        workflow_tasks[i].task_type \notin KnownTaskTypes =>
            /\ workflow_tasks[i].status /= COMPLETED
            /\ workflow_tasks[i].task_id \notin RunInvoked

\* C9 - priority scheduling: when the executor starts a ready task, no task it
\* has still to execute is ready and of strictly higher priority, and a ready
\* one of equal priority was declared later.
C9_PriorityScheduling ==
    [][\A id \in TaskIds :
          (Starts(id) /\ Ready(id)) =>
              \A k \in 2..Len(run.sorted_tasks) :
                  LET u == run.sorted_tasks[k]
                      pu == PriorityRank(TaskById(u).priority)
                      pid == PriorityRank(TaskById(id).priority)
                  IN Ready(u) => \/ pid < pu
                                 \/ pid = pu /\ IndexOf(id) < IndexOf(u)]_vars

\* the edges of the task state machine
TaskTransitions ==
    { <<PENDING, "ready">>, <<"ready", IN_PROGRESS>>, <<IN_PROGRESS, COMPLETED>>,
      <<IN_PROGRESS, FAILED>>, <<IN_PROGRESS, CANCELLED>>, <<IN_PROGRESS, ON_HOLD>>,
      <<ON_HOLD, IN_PROGRESS>> }

\* C10 - task state machine: a stored task status changes only along
\* Pending -> Ready -> InProgress -> {Completed, Failed, Cancelled},
\* InProgress -> OnHold and OnHold -> InProgress; in particular a Completed,
\* Failed or Cancelled task never changes status again.
C10_TaskStateMachine ==
    [][\A i \in TaskIndices :
          workflow_tasks'[i].status /= workflow_tasks[i].status =>
              <<workflow_tasks[i].status, workflow_tasks'[i].status>> \in TaskTransitions]_vars

\* --------------------------------- vocabulary of the rule engine properties
\* this step is one call of evaluate_business_rule
EvaluateStep == evaluation'.kind = "evaluate" /\ evals' = evals + 1

\* the rule id, the context and the result of the call of an EvaluateStep
StepRuleId == evaluation'.pairs[1].rule_id

StepContext == evaluation'.context

StepResult == evaluation'.results[1]

\* the last call was evaluate_business_rule; its rule id and its result
Evaluated == evaluation.kind = "evaluate"

LastRuleId == evaluation.pairs[1].rule_id

LastResult == evaluation.results[1]

\* the last call evaluated the condition of its rule, and eval raised
LastConditionRaised ==
    /\ Evaluated
    /\ LastResult.evaluated
    /\ ConditionRaises(business_rules[LastRuleId].condition, evaluation.context, weekend)

\* this step is a batch evaluation that got past the collaborator test
BatchStep ==
    /\ evaluation'.kind \in {"inventory", "compliance"}
    /\ ~evaluation'.error
    /\ evals' /= evals

\* C12: evaluate_business_rule on a rule with enabled = false returns
\* evaluated = false and leaves the rules (so the rule's execution_count and
\* last_executed), the approval requests and the rule execution history
\* unchanged.
C12_DisabledRuleSkipped ==
    [][ ( /\ EvaluateStep
          /\ StepRuleId \in DOMAIN business_rules
          /\ ~business_rules[StepRuleId].enabled )
        => ( /\ ~StepResult.evaluated
             /\ business_rules' = business_rules
             /\ approval_requests' = approval_requests
             /\ rule_execution_history' = rule_execution_history ) ]_vars

\* a disabled rule has been evaluated, after it had been executed before
C12_Witness ==
    /\ Evaluated
    /\ LastRuleId \in DOMAIN business_rules
    /\ ~business_rules[LastRuleId].enabled
    /\ LastResult.reason = "Rule is disabled"
    /\ business_rules[LastRuleId].execution_count > 0

\* C13: when the condition of the evaluated rule raises (a name absent from
\* the context, a function that is not registered, an ordering of mismatched
\* types), the result carries an error and so does the history entry of the
\* evaluation; it is never a plain condition_met = false result.
C13_ConditionFailureIsError ==
    LastConditionRaised =>
        /\ LastResult.error /= "none"
        /\ rule_execution_history /= <<>>
        /\ rule_execution_history[Len(rule_execution_history)].error /= "none"

\* C14: when eval of the condition raises, the action is not executed:
\* actions_triggered is empty, no approval request is created, and the rule's
\* execution_count and last_executed are unchanged.
C14_NoActionOnConditionError ==
    [][ ( /\ EvaluateStep
          /\ StepRuleId \in DOMAIN business_rules
          /\ business_rules[StepRuleId].enabled
          /\ ConditionRaises(business_rules[StepRuleId].condition, StepContext, weekend) )
        => ( /\ StepResult.actions_triggered = <<>>
             /\ approval_requests' = approval_requests
             /\ business_rules'[StepRuleId].execution_count =
                    business_rules[StepRuleId].execution_count
             /\ business_rules'[StepRuleId].last_executed =
                    business_rules[StepRuleId].last_executed ) ]_vars

\* the condition of the last evaluated rule raised, for a rule whose action
\* would have created an approval request
C14_Witness ==
    /\ LastConditionRaised
    /\ business_rules[LastRuleId].action = "create_approval_request"

\* C15: in a batch evaluation an error while evaluating one rule never
\* prevents the remaining rules and items from being evaluated: the batch
\* returns one result per (item, relevant rule) pair, and every result that
\* carries no error has evaluated = true.
C15_BatchIsolation ==
    [][ BatchStep =>
          /\ Len(evaluation'.results) = Len(evaluation'.pairs)
          /\ \A k \in 1..Len(evaluation'.results) :
                /\ evaluation'.results[k].rule_id = evaluation'.pairs[k].rule_id
                /\ evaluation'.results[k].error = "none"
                      => evaluation'.results[k].evaluated ]_vars

\* C15, amended: the batch returns one result per (item, relevant rule) pair,
\* and the result of a pair has evaluated = true exactly when the rule is
\* enabled, also when its condition raised; a disabled rule yields
\* evaluated = false.
C15_BatchIsolationOfEnabledRules ==
    [][ BatchStep =>
          /\ Len(evaluation'.results) = Len(evaluation'.pairs)
          /\ \A k \in 1..Len(evaluation'.results) :
                /\ evaluation'.results[k].rule_id = evaluation'.pairs[k].rule_id
                /\ evaluation'.results[k].evaluated
                      = business_rules[evaluation'.pairs[k].rule_id].enabled ]_vars

\* a batch in which the condition of a pair raised and a later pair, of
\* another item, was evaluated
C15_Witness ==
    /\ evaluation.kind = "inventory"
    /\ ~evaluation.error
    /\ \E k \in 1..Len(evaluation.pairs) :
          /\ evaluation.results[k].evaluated
          /\ ConditionRaises(business_rules[evaluation.pairs[k].rule_id].condition,
                             evaluation.pairs[k].context, weekend)
          /\ \E j \in (k + 1)..Len(evaluation.results) :
                /\ evaluation.pairs[j].context /= evaluation.pairs[k].context
                /\ evaluation.results[j].evaluated

\* C16: two evaluations of an enabled rule against identical contexts return
\* the same condition_met, whatever happened in between (the history holds
\* one entry per evaluation of an enabled rule).
C16_Determinism ==
    \A i, j \in 1..Len(rule_execution_history) :
        ( /\ rule_execution_history[i].rule_id = rule_execution_history[j].rule_id
          /\ rule_execution_history[i].context = rule_execution_history[j].context )
        => rule_execution_history[i].condition_met = rule_execution_history[j].condition_met

\* C17: a rule's execution_count never decreases, and one call of
\* evaluate_business_rule raises the count of its rule by exactly one when the
\* condition is met and by zero otherwise, and no other count at all.
C17_ExecutionCountMonotone ==
    [][ /\ \A id \in DOMAIN business_rules :
              /\ id \in DOMAIN business_rules'
              /\ business_rules'[id].execution_count >= business_rules[id].execution_count
        /\ EvaluateStep =>
              \A id \in DOMAIN business_rules :
                  business_rules'[id].execution_count =
                      business_rules[id].execution_count +
                      (IF id = StepRuleId /\ StepResult.condition_met THEN 1 ELSE 0) ]_vars

\* a rule was executed and then evaluated with its condition not met
C17_Witness ==
    /\ Evaluated
    /\ LastRuleId \in DOMAIN business_rules
    /\ LastResult.evaluated
    /\ ~LastResult.condition_met
    /\ business_rules[LastRuleId].execution_count = 1

\* C18: evaluate_business_rule never adds, removes or changes an entry of the
\* caller's context: the context after the call equals the context before it.
C18_ContextReadOnly ==
    (Evaluated /\ LastResult.evaluated) => LastResult.context = evaluation.context

\* a rule was evaluated against a non-empty context, its condition was met and
\* its action dispatched
C18_Witness ==
    /\ Evaluated
    /\ LastResult.evaluated
    /\ LastResult.condition_met
    /\ LastResult.actions_triggered /= <<>>
    /\ DOMAIN evaluation.context /= {}

\* C19: when a rule whose condition is met names an action without a handler,
\* the call still returns a result with evaluated = true, and that result
\* carries an error instead of reporting a triggered action.
C19_UnknownActionSurfaced ==
    ( /\ Evaluated
      /\ LastResult.evaluated
      /\ LastResult.condition_met
      /\ business_rules[LastRuleId].action \notin KnownActions )
    => LastResult.error /= "none"

\* C20: an evaluation of an approval rule against a context the rule was
\* already executed with creates no further ApprovalRequest.
C20_IdempotentApprovalCreation ==
    [][ ( /\ EvaluateStep
          /\ \E i \in 1..Len(rule_execution_history) :
                /\ rule_execution_history[i].rule_id = StepRuleId
                /\ rule_execution_history[i].context = StepContext
                /\ rule_execution_history[i].condition_met )
        => Len(approval_requests') = Len(approval_requests) ]_vars

\* ------------------------------------ vocabulary of the later properties
\* s is a prefix of t
IsPrefix(s, t) == Len(s) <= Len(t) /\ \A k \in 1..Len(s) : t[k] = s[k]

\* task ids in the result lists of a returned run
RunResultIds(r) ==
    ResultIds(r.tasks_executed) \cup ResultIds(r.tasks_pending) \cup ResultIds(r.tasks_failed)

\* the handler of task id was invoked by a run that has returned
InEarlierRun(id) ==
    \E k \in 1..Len(workflow_history) : id \in RunResultIds(workflow_history[k])

\* the stored status of task id after the step
StatusAfter(id) == workflow_tasks'[IndexOf(id)].status

\* this step puts a task on hold: its result goes to tasks_pending
PutsOnHold(id) == Starts(id) /\ Len(run'.tasks_pending) = Len(run.tasks_pending) + 1

C22_InstanceIsolation ==
    [][ /\ calls' = calls + 1 =>
              \A i \in WorkflowTaskIndices(run'.workflow_id) :
                  workflow_tasks[i].status = PENDING
        /\ \A id \in TaskIds :
              (Starts(id) /\ InEarlierRun(id)) => StatusAfter(id) = StatusOf(id) ]_vars

\* C23: when all concurrent callers have returned, the execution_count of
\* every rule has grown by the number of calls that met its condition, and
\* the history holds one entry per call (the counts start at 0, the history
\* empty).
C23_NoLostUpdate ==
    (\A t \in 1..MaxThreads : threads[t].pc = "returned") =>
        /\ \A rule_id \in DOMAIN business_rules :
              business_rules[rule_id].execution_count =
                  Cardinality({t \in 1..MaxThreads :
                                  /\ threads[t].rule_id = rule_id
                                  /\ threads[t].result.condition_met})
        /\ Len(rule_execution_history) =
              Cardinality({t \in 1..MaxThreads : threads[t].result.evaluated})

\* C24: each time the executor puts a task on hold, exactly one new
\* ApprovalRequest with status 'pending' is added to the approval store, and
\* executing a task that is not put on hold creates none.
C24_HoldCreatesRequest ==
    [][ \A id \in TaskIds :
          Starts(id) =>
             IF PutsOnHold(id)
             THEN /\ Len(approval_requests') = Len(approval_requests) + 1
                  /\ IsPrefix(approval_requests, approval_requests')
                  /\ approval_requests'[Len(approval_requests')].status = "pending"
             ELSE approval_requests' = approval_requests ]_vars

\* C25: every evaluate_business_rule call on an existing, enabled rule appends
\* exactly one entry to the rule execution history, whether the condition was
\* met, not met or raised, and the entry's condition_met and
\* actions_triggered equal those of the result returned.
C25_OneHistoryEntryPerEvaluation ==
    [][ ( /\ EvaluateStep
          /\ StepRuleId \in DOMAIN business_rules
          /\ business_rules[StepRuleId].enabled )
        => ( /\ Len(rule_execution_history') = Len(rule_execution_history) + 1
             /\ IsPrefix(rule_execution_history, rule_execution_history')
             /\ LET entry == rule_execution_history'[Len(rule_execution_history')]
                IN /\ entry.rule_id = StepRuleId
                   /\ entry.condition_met = StepResult.condition_met
                   /\ entry.actions_triggered = StepResult.actions_triggered ) ]_vars

\* an evaluation whose condition raised was followed by one whose condition
\* was met and whose action was dispatched
C25_Witness ==
    /\ Evaluated
    /\ LastResult.condition_met
    /\ LastResult.actions_triggered /= <<>>
    /\ Len(rule_execution_history) = 2
    /\ ConditionRaises(business_rules[rule_execution_history[1].rule_id].condition,
                       rule_execution_history[1].context, weekend)

\* C26: when execute_workflow is invoked again, a task that is already
\* Completed is not executed again, and a task an earlier run has put on hold
\* does not get a second ApprovalRequest.
C26_NoReexecution ==
    [][ \A id \in TaskIds :
          Starts(id) =>
             /\ StatusOf(id) /= COMPLETED
             /\ (\E k \in 1..Len(workflow_history) :
                    id \in ResultIds(workflow_history[k].tasks_pending))
                  => approval_requests' = approval_requests ]_vars

\* C27: execute_workflow with a workflow id that has no tasks returns status
\* 'failed' with an error and leaves every task's status, the approval
\* requests and the workflow history unchanged.
C27_UnknownWorkflow ==
    [][ ( /\ calls' = calls + 1
          /\ WorkflowTaskIndices(run'.workflow_id) = {} )
        => ( /\ run'.pc = "done"
             /\ run'.status = "failed"
             /\ run'.error
             /\ workflow_tasks' = workflow_tasks
             /\ approval_requests' = approval_requests
             /\ workflow_history' = workflow_history ) ]_vars

\* the call for an unknown workflow has returned, after a run that had
\* changed task statuses, created an approval request and written history
C27_Witness ==
    /\ run.pc = "done"
    /\ run.error
    /\ WorkflowTaskIndices(run.workflow_id) = {}
    /\ workflow_history /= <<>>
    /\ approval_requests /= <<>>

\* C28: when a run that found tasks has returned, every task of the workflow
\* is in exactly one of tasks_executed, tasks_pending, tasks_failed, exactly
\* once, and its stored status is Completed (Failed) exactly when it is in
\* tasks_executed (tasks_failed).
C28_ResultPartition ==
    RunReturned =>
        LET ids == {workflow_tasks[i].task_id : i \in WorkflowTaskIndices(run.workflow_id)}
            all == run.tasks_executed \o run.tasks_pending \o run.tasks_failed
        IN /\ Len(all) = Cardinality(ids)
           /\ \A id \in ids : Cardinality({k \in 1..Len(all) : all[k].task_id = id}) = 1
           /\ \A id \in ids :
                 /\ StatusOf(id) = COMPLETED <=> id \in ResultIds(run.tasks_executed)
                 /\ StatusOf(id) = FAILED <=> id \in ResultIds(run.tasks_failed)

\* C29: every call of process_notification_queue returns, also when the
\* queue holds a message whose scheduled_date lies in the future.
C29_ProcessingTerminates == (processing = "loop") ~> (processing = "idle")

\* C30: a delivery is attempted only for a pending message with fewer than
\* max_retry_attempts failed attempts, so at most max_retry_attempts times
\* and never after the message was sent; delivery_attempts never exceeds
\* max_retry_attempts; a message that reached it has status FAILED and is not
\* on the queue; a sent message is not on the queue.
C30_BoundedRetries ==
    [][ /\ \A id \in 1..Len(messages) :
              messages'[id] /= messages[id] =>
                  /\ messages[id].status = NotificationPending
                  /\ messages[id].delivery_attempts < MaxRetryAttempts
        /\ \A id \in 1..Len(messages') :
              /\ messages'[id].delivery_attempts <= MaxRetryAttempts
              /\ messages'[id].delivery_attempts = MaxRetryAttempts =>
                    /\ messages'[id].status = NotificationFailed
                    /\ id \notin {message_queue'[k] : k \in 1..Len(message_queue')}
              /\ messages'[id].status = NotificationSent =>
                    id \notin {message_queue'[k] : k \in 1..Len(message_queue')}
              /\ messages'[id].status = NotificationPending =>
                    Cardinality({k \in 1..Len(message_queue') : message_queue'[k] = id}) = 1 ]_vars

\* one message has failed for good after max_retry_attempts attempts, another
\* was sent after a failed attempt, and the queue has been processed since
C30_Witness ==
    /\ \E id \in 1..Len(messages) :
          /\ messages[id].status = NotificationFailed
          /\ messages[id].delivery_attempts = MaxRetryAttempts
    /\ \E id \in 1..Len(messages) :
          /\ messages[id].status = NotificationSent
          /\ messages[id].delivery_attempts > 0
    /\ processing = "idle"
    /\ message_queue = <<>>

====
